---- MODULE Spec2Model ----
(***************************************************************************)
(* Failed-game ledger (src/ncaa_scraper/failed_games.py) and CSV merge     *)
(* (src/ncaa_scraper/storage/csv_handler.py) of the NCAA scraper.          *)
(*                                                                         *)
(* A Python dict keeps insertion order and json.dump/json.load keep it     *)
(* too, so a dict is modelled as a sequence of [key, val] pairs.  A ledger *)
(* record is a TLA+ record whose DOMAIN is the set of keys the Python dict *)
(* holds, so that entry['division'] on a dict without that key is the      *)
(* KeyError of the code and entry.get('retry_count', 0) its default.       *)
(***************************************************************************)
EXTENDS Integers, Sequences, FiniteSets, TLC

VARIABLES file, last, hist,
          existing_csv, new_csv, output_csv, reoutput_csv, result, pc,
          before, call, ret, procs, run

ledger_vars == <<file, last, hist>>
csv_vars == <<existing_csv, new_csv, output_csv, reoutput_csv, result, pc>>
call_vars == <<before, call, ret>>
vars == <<ledger_vars, csv_vars, call_vars, procs, run>>

(* ------------------------------ bounds -------------------------------- *)
NumDates == 2
NumGames == 2
MaxRecords == 2
MaxRetry == 2
MaxRows == 2

(* ------------------------------ inputs -------------------------------- *)
Dates == {[year |-> 2025, month |-> 1, day |-> 11 + i] : i \in 1..NumDates}
Games == 1..NumGames
Divisions == {"d1", "d2"}
Genders == {"men", "women"}
(* The (division, gender) pairs the callers pass in this model.            *)
Combos == {c \in Divisions \X Genders : c # <<"d2", "women">>}
Errors == {[error_type |-> "timeout", error_message |-> "Game failed to scrape"],
           [error_type |-> "exception", error_message |-> "boom"]}

(* date.isoformat(): the "YYYY-MM-DD" text, kept as its three numbers.     *)
isoformat(d) == <<d.year, d.month, d.day>>

(* ---------------------- ordered dict (Python dict) -------------------- *)
DictKeys(d) == {d[i].key : i \in DOMAIN d}
DictHas(d, k) == k \in DictKeys(d)
DictGet(d, k) == d[CHOOSE i \in DOMAIN d : d[i].key = k].val
DictSet(d, k, v) ==
    IF DictHas(d, k)
    THEN [i \in DOMAIN d |-> IF d[i].key = k THEN [key |-> k, val |-> v] ELSE d[i]]
    ELSE Append(d, [key |-> k, val |-> v])
DictDel(d, k) == SelectSeq(d, LAMBDA e : e.key # k)

(* ---------------------------- the ledger file ------------------------- *)
(* kind: "missing" (no file), "corrupt" (json.load raises), "array" (a     *)
(* JSON document that is not an object), "object" (data is the dict).      *)
FileMissing == [kind |-> "missing", data |-> <<>>]
FileCorrupt == [kind |-> "corrupt", data |-> <<>>]
FileArray == [kind |-> "array", data |-> <<>>]
FileObject(d) == [kind |-> "object", data |-> d]

(* I/O outcomes of one call.                                               *)
IoOk == "ok"
IoFaults == {"mkdir_fails", "read_fails", "open_w_fails", "dump_fails"}

(* with open(path, 'w') as f: json.dump(data, f): open truncates the file, *)
(* so a failure after open leaves a truncated (unparsable) document.       *)
WriteFile(f, data, io) ==
    CASE io = "open_w_fails" -> [file |-> f, ok |-> FALSE]
      [] io = "dump_fails" -> [file |-> FileCorrupt, ok |-> FALSE]
      [] OTHER -> [file |-> FileObject(data), ok |-> TRUE]

(* The for loop over entries: index of the first entry that matches        *)
(* (division, gender), 0 when none does, -1 when an entry read on the way  *)
(* lacks a key the comparison reads (KeyError).                            *)
RECURSIVE FindEntry(_, _, _, _)
FindEntry(entries, i, division, gender) ==
    IF i > Len(entries) THEN 0
    ELSE LET entry == entries[i] IN
         IF "division" \notin DOMAIN entry THEN -1
         ELSE IF entry.division # division
              THEN FindEntry(entries, i + 1, division, gender)
         ELSE IF "gender" \notin DOMAIN entry THEN -1
         ELSE IF entry.gender = gender THEN i
         ELSE FindEntry(entries, i + 1, division, gender)

EntryGet(entry, k, default) == IF k \in DOMAIN entry THEN entry[k] ELSE default

(* Faulty variant: entries.pop(0), whatever the index.                     *)
RemoveFirst(s, i) == SubSeq(s, 2, Len(s))

(* entries.pop(i).                                                         *)
RemoveAt(s, i) == SubSeq(s, 1, i - 1) \o SubSeq(s, i + 1, Len(s))

(* ------------------------------ save ---------------------------------- *)
NewEntry(division, gender, error_type, error_message) ==
    [division |-> division, gender |-> gender, error_type |-> error_type,
     error_message |-> error_message, retry_count |-> 0]

(* Faulty variant: appends even when the key has an entry.                 *)
SaveEntriesAppend(entries, idx, division, gender, error_type, error_message) ==
    Append(entries, NewEntry(division, gender, error_type, error_message))

(* Faulty variant: an update restarts retry_count.                         *)
SaveEntriesReset(entries, idx, division, gender, error_type, error_message) ==
    IF idx > 0
    THEN [entries EXCEPT ![idx] = NewEntry(division, gender, error_type, error_message)]
    ELSE Append(entries, NewEntry(division, gender, error_type, error_message))

(* Faulty variant: a new entry is put in front of the list.                *)
SaveEntriesPrepend(entries, idx, division, gender, error_type, error_message) ==
    IF idx > 0
    THEN [entries EXCEPT ![idx] =
            ("error_type" :> error_type) @@ ("error_message" :> error_message)
            @@ ("retry_count" :> EntryGet(entries[idx], "retry_count", 0))
            @@ entries[idx]]
    ELSE <<NewEntry(division, gender, error_type, error_message)>> \o entries

(* The entries list after lines 62-75: update in place or append.          *)
SaveEntries(entries, idx, division, gender, error_type, error_message) ==
    IF idx > 0
    THEN [entries EXCEPT ![idx] =
            ("error_type" :> error_type) @@ ("error_message" :> error_message)
            @@ ("retry_count" :> EntryGet(entries[idx], "retry_count", 0))
            @@ entries[idx]]
    ELSE Append(entries, NewEntry(division, gender, error_type, error_message))

(* Faulty variant: a store that cannot be read is taken to hold a record.   *)
LoadExistingKeepsOld(f, io) ==
    IF f.kind = "object" /\ io # "read_fails" THEN f.data
    ELSE <<[key |-> isoformat(CHOOSE d \in Dates : d.day = 13),
            val |-> <<[key |-> 1,
                       val |-> <<NewEntry("d1", "men", "timeout", "old")>>]>>]>>

(* if os.path.exists: try json.load except: {}; else {}.                   *)
LoadExisting(f, io) ==
    IF f.kind = "object" /\ io # "read_fails" THEN f.data ELSE <<>>

save_failed_game(f, game_link, date, division, gender, error_type, error_message, io) ==
    IF io = "mkdir_fails" THEN [file |-> f, outcome |-> "raised"]
    ELSE IF f.kind = "array" /\ io # "read_fails"
    THEN [file |-> f, outcome |-> "raised"]
    ELSE
    LET failed_games == LoadExisting(f, io)
        date_key == isoformat(date)
        fg1 == IF DictHas(failed_games, date_key) THEN failed_games
               ELSE DictSet(failed_games, date_key, <<>>)
        bucket1 == DictGet(fg1, date_key)
        bucket2 == IF DictHas(bucket1, game_link) THEN bucket1
                   ELSE DictSet(bucket1, game_link, <<>>)
        entries == DictGet(bucket2, game_link)
        idx == FindEntry(entries, 1, division, gender)
    IN  IF idx < 0 THEN [file |-> f, outcome |-> "raised"]
        ELSE
        LET entries2 == SaveEntries(entries, idx, division, gender,
                                    error_type, error_message)
            fg2 == DictSet(fg1, date_key, DictSet(bucket2, game_link, entries2))
            w == WriteFile(f, fg2, io)
        IN  [file |-> w.file, outcome |-> IF w.ok THEN "returned" ELSE "raised"]

(* --------------------------- mark_retried ----------------------------- *)
(* Faulty variant: a successful retry leaves the entry in place.           *)
MarkEntriesKeep(failed_games, date_key, game_link, idx, success) == failed_games

(* Faulty variant: the emptied game and date are not deleted.              *)
MarkEntriesNoPrune(failed_games, date_key, game_link, idx, success) ==
    LET bucket == DictGet(failed_games, date_key)
        entries == DictGet(bucket, game_link)
    IN  IF idx = 0 THEN failed_games
        ELSE IF success
        THEN DictSet(failed_games, date_key,
                     DictSet(bucket, game_link, RemoveAt(entries, idx)))
        ELSE DictSet(failed_games, date_key,
                DictSet(bucket, game_link,
                    [entries EXCEPT ![idx] =
                        ("retry_count" :> EntryGet(entries[idx], "retry_count", 0) + 1)
                        @@ entries[idx]]))

(* Faulty variant: a failed retry sets retry_count to 1.                    *)
MarkEntriesFixedCount(failed_games, date_key, game_link, idx, success) ==
    LET bucket == DictGet(failed_games, date_key)
        entries == DictGet(bucket, game_link)
    IN  IF idx = 0 \/ success THEN failed_games
        ELSE DictSet(failed_games, date_key,
                DictSet(bucket, game_link,
                    [entries EXCEPT ![idx] = ("retry_count" :> 1) @@ entries[idx]]))

(* Faulty variant: without a matching entry the game is deleted.           *)
MarkEntriesDropGame(failed_games, date_key, game_link, idx, success) ==
    LET bucket == DictGet(failed_games, date_key)
    IN  IF idx = 0
        THEN IF DictDel(bucket, game_link) = <<>>
             THEN DictDel(failed_games, date_key)
             ELSE DictSet(failed_games, date_key, DictDel(bucket, game_link))
        ELSE failed_games

(* Faulty variant: a record that failed before is dropped by a failed      *)
(* retry.                                                                  *)
MarkEntriesGiveUp(failed_games, date_key, game_link, idx, success) ==
    LET bucket == DictGet(failed_games, date_key)
        entries == DictGet(bucket, game_link)
        bucket2 ==
            IF idx = 0 THEN bucket
            ELSE IF success \/ EntryGet(entries[idx], "retry_count", 0) >= 1
            THEN IF RemoveAt(entries, idx) = <<>>
                 THEN DictDel(bucket, game_link)
                 ELSE DictSet(bucket, game_link, RemoveAt(entries, idx))
            ELSE DictSet(bucket, game_link,
                    [entries EXCEPT ![idx] =
                        ("retry_count" :> EntryGet(entries[idx], "retry_count", 0) + 1)
                        @@ entries[idx]])
    IN  IF bucket2 = <<>> THEN DictDel(failed_games, date_key)
        ELSE DictSet(failed_games, date_key, bucket2)

(* Faulty variant: a successful retry deletes the game with all its        *)
(* records.                                                                *)
MarkEntriesClearGame(failed_games, date_key, game_link, idx, success) ==
    LET bucket == DictGet(failed_games, date_key)
        entries == DictGet(bucket, game_link)
        bucket2 ==
            IF idx = 0 THEN bucket
            ELSE IF success THEN DictDel(bucket, game_link)
            ELSE DictSet(bucket, game_link,
                    [entries EXCEPT ![idx] =
                        ("retry_count" :> EntryGet(entries[idx], "retry_count", 0) + 1)
                        @@ entries[idx]])
    IN  IF bucket2 = <<>> THEN DictDel(failed_games, date_key)
        ELSE DictSet(failed_games, date_key, bucket2)

(* Lines 181-198 on the loaded dict: the dict that is written back.        *)
MarkEntries(failed_games, date_key, game_link, idx, success) ==
    LET bucket == DictGet(failed_games, date_key)
        entries == DictGet(bucket, game_link)
        bucket2 ==
            IF idx = 0 THEN bucket
            ELSE IF success
            THEN IF RemoveAt(entries, idx) = <<>>
                 THEN DictDel(bucket, game_link)
                 ELSE DictSet(bucket, game_link, RemoveAt(entries, idx))
            ELSE DictSet(bucket, game_link,
                    [entries EXCEPT ![idx] =
                        ("retry_count" :> EntryGet(entries[idx], "retry_count", 0) + 1)
                        @@ entries[idx]])
    IN  IF bucket2 = <<>> THEN DictDel(failed_games, date_key)
        ELSE DictSet(failed_games, date_key, bucket2)

(* Faulty variant: the call writes an empty ledger whatever it finds.      *)
MarkCreatesFile(f, game_link, target_date, division, gender, success, io) ==
    [file |-> FileObject(<<>>), outcome |-> "returned"]

mark_game_as_retried(f, game_link, target_date, division, gender, success, io) ==
    IF f.kind = "missing" THEN [file |-> f, outcome |-> "returned"]
    ELSE IF f.kind = "corrupt" \/ io = "read_fails"
    THEN [file |-> f, outcome |-> "caught"]
    ELSE IF f.kind = "array" THEN [file |-> f, outcome |-> "returned"]
    ELSE
    LET failed_games == f.data
        date_key == isoformat(target_date)
    IN  IF ~DictHas(failed_games, date_key) THEN [file |-> f, outcome |-> "returned"]
        ELSE IF ~DictHas(DictGet(failed_games, date_key), game_link)
        THEN [file |-> f, outcome |-> "returned"]
        ELSE
        LET entries == DictGet(DictGet(failed_games, date_key), game_link)
            idx == FindEntry(entries, 1, division, gender)
        IN  IF idx < 0 THEN [file |-> f, outcome |-> "caught"]
            ELSE
            LET w == WriteFile(f, MarkEntries(failed_games, date_key, game_link,
                                              idx, success), io)
            IN  [file |-> w.file, outcome |-> IF w.ok THEN "returned" ELSE "caught"]

(* ------------------------- load and query ----------------------------- *)
(* Faulty variant: the file is opened for writing, which empties it.       *)
FileAfterLoadTruncated(f) == IF f.kind = "missing" THEN f ELSE FileCorrupt

(* with open(failed_games_file, 'r'): the file is only read.               *)
FileAfterLoad(f) == f

(* The parsed JSON document of a readable file.                            *)
Document(f) == [kind |-> f.kind, data |-> f.data]
EmptyDict == [kind |-> "object", data |-> <<>>]
NoDate == [year |-> 0, month |-> 0, day |-> 0]

(* load_failed_games: the document, {} on a missing file or any exception  *)
(* (a target date on a document that is no dict: .get raises inside try).  *)
load_failed_games(f, target_date, io) ==
    IF f.kind = "missing" THEN EmptyDict
    ELSE IF f.kind = "corrupt" \/ io = "read_fails" THEN EmptyDict
    ELSE IF target_date = NoDate THEN Document(f)
    ELSE IF f.kind = "array" THEN EmptyDict
    ELSE [kind |-> "object",
          data |-> <<[key |-> isoformat(target_date),
                      val |-> IF DictHas(f.data, isoformat(target_date))
                              THEN DictGet(f.data, isoformat(target_date))
                              ELSE <<>>]>>]

(* Faulty variant: the games come out in reverse order.                    *)
RECURSIVE QueryGamesReversed(_, _, _, _)
QueryGamesReversed(date_failed, i, division, gender) ==
    IF i > Len(date_failed) THEN [raised |-> FALSE, games |-> <<>>]
    ELSE LET idx == FindEntry(date_failed[i].val, 1, division, gender)
             rest == QueryGamesReversed(date_failed, i + 1, division, gender)
         IN  IF idx < 0 \/ rest.raised THEN [raised |-> TRUE, games |-> <<>>]
             ELSE [raised |-> FALSE,
                   games |-> rest.games \o
                             (IF idx > 0 THEN <<date_failed[i].key>> ELSE <<>>)]

(* The two nested loops of the query: the games with a matching entry, in  *)
(* the order of the date's dict; raised when an entry lacks a key read.    *)
RECURSIVE QueryGames(_, _, _, _)
QueryGames(date_failed, i, division, gender) ==
    IF i > Len(date_failed) THEN [raised |-> FALSE, games |-> <<>>]
    ELSE LET idx == FindEntry(date_failed[i].val, 1, division, gender)
             rest == QueryGames(date_failed, i + 1, division, gender)
         IN  IF idx < 0 \/ rest.raised THEN [raised |-> TRUE, games |-> <<>>]
             ELSE [raised |-> FALSE,
                   games |-> (IF idx > 0 THEN <<date_failed[i].key>> ELSE <<>>)
                             \o rest.games]

(* failed_games.get on a list raises AttributeError.                       *)
get_failed_games_for_division_gender(failed_games, target_date, division, gender) ==
    IF failed_games.kind # "object" THEN [raised |-> TRUE, games |-> <<>>]
    ELSE LET date_key == isoformat(target_date)
             date_failed == IF DictHas(failed_games.data, date_key)
                            THEN DictGet(failed_games.data, date_key) ELSE <<>>
         IN  QueryGames(date_failed, 1, division, gender)

Range(s) == {s[i] : i \in DOMAIN s}

(* load for the date, then query: is the game in the list returned?        *)
Listed(f, game_link, target_date, division, gender) ==
    game_link \in Range(get_failed_games_for_division_gender(
                            load_failed_games(f, target_date, IoOk),
                            target_date, division, gender).games)

(* ------------------------- views of the ledger ------------------------ *)
(* The dict of a ledger file, empty when the file holds none.              *)
Ledger(f) == IF f.kind = "object" THEN f.data ELSE <<>>

(* Every record of the ledger with its place: <<date_key, game, i>>.       *)
Slots(d) ==
    UNION {UNION {{<<d[i].key, d[i].val[j].key, n>> :
                      n \in DOMAIN d[i].val[j].val} :
                  j \in DOMAIN d[i].val} :
           i \in DOMAIN d}
SlotEntry(d, s) == DictGet(DictGet(d, s[1]), s[2])[s[3]]
SlotKey(d, s) ==
    <<s[1], s[2], EntryGet(SlotEntry(d, s), "division", ""),
      EntryGet(SlotEntry(d, s), "gender", "")>>
NumRecords(d) == Cardinality(Slots(d))
RecordsOf(d, key) == {s \in Slots(d) : SlotKey(d, s) = key}
HasRecord(d, key) == RecordsOf(d, key) # {}
RecordOf(d, key) == SlotEntry(d, CHOOSE s \in RecordsOf(d, key) : TRUE)

(* The keys of a dict in order, and the bucket of a date and the entries   *)
(* of a game, empty when absent: d.get(date_key, {}).get(game_link, []).   *)
KeySeq(d) == [i \in DOMAIN d |-> d[i].key]
BucketAt(d, date_key) == IF DictHas(d, date_key) THEN DictGet(d, date_key) ELSE <<>>
EntriesAt(d, date_key, game_link) ==
    IF DictHas(BucketAt(d, date_key), game_link)
    THEN DictGet(BucketAt(d, date_key), game_link) ELSE <<>>

(* ------------------------------ tables -------------------------------- *)
(* A CSV file: "missing", "unreadable" (pd.read_csv raises, as on an empty *)
(* file) or "table" with its header and rows.  A row maps each column to   *)
(* the text of its cell; NaN is the empty cell that pd.concat leaves in a  *)
(* column a frame does not have.  to_csv(index=False) writes the header    *)
(* and the cells, NaN as the empty text, and read_csv reads them back.     *)
NaN == "<NaN>"
GameIds == {"A", "B", "C"}
GameLinks == {"u1", "u2"}
Teams == {"t"}
ColumnSets == {{"TEAM"} \cup c : c \in SUBSET {"GAMEID", "GAMELINK"}}
CellValues(col) ==
    CASE col = "GAMEID" -> GameIds
      [] col = "GAMELINK" -> GameLinks
      [] OTHER -> Teams
RowsOver(cols) ==
    {r \in [cols -> GameIds \cup GameLinks \cup Teams] :
        \A c \in cols : r[c] \in CellValues(c)}
SeqsUpTo(S, n) == UNION {[1..k -> S] : k \in 0..n}

CsvMissing == [kind |-> "missing", columns |-> {}, rows |-> <<>>]
CsvUnreadable == [kind |-> "unreadable", columns |-> {}, rows |-> <<>>]
CsvTable(cols, rows) == [kind |-> "table", columns |-> cols, rows |-> rows]
CsvFiles ==
    {CsvMissing, CsvUnreadable} \cup
    UNION {{CsvTable(cols, rows) : rows \in SeqsUpTo(RowsOver(cols), MaxRows)} :
           cols \in ColumnSets}

(* read_csv_safely: the frame, or None.                                    *)
None == [kind |-> "none", columns |-> {}, rows |-> <<>>]
read_csv_safely(csv) == IF csv.kind = "table" THEN csv ELSE None

(* df.to_csv(path, index=False): the file written.                         *)
to_csv(df) == CsvTable(df.columns, df.rows)

(* set(df[col].values)                                                     *)
ColumnValues(df, col) == {df.rows[i][col] : i \in DOMAIN df.rows}

(* new_df[~new_df[col].isin(values)]                                       *)
NotIsIn(df, col, values) ==
    [df EXCEPT !.rows = SelectSeq(df.rows, LAMBDA r : r[col] \notin values)]

(* Faulty variant: nothing is filtered out.                                *)
FilterNewKeepAll(existing_df, new_df) == new_df

(* Faulty variant: without GAMEID and GAMELINK no new row is kept.         *)
FilterNewDropUnkeyed(existing_df, new_df) ==
    LET existing_game_ids ==
            IF "GAMEID" \in existing_df.columns
            THEN ColumnValues(existing_df, "GAMEID") ELSE {}
        existing_game_links ==
            IF "GAMELINK" \in existing_df.columns
            THEN ColumnValues(existing_df, "GAMELINK") ELSE {}
    IN  IF "GAMEID" \in new_df.columns
        THEN NotIsIn(new_df, "GAMEID", existing_game_ids)
        ELSE IF "GAMELINK" \in new_df.columns
        THEN NotIsIn(new_df, "GAMELINK", existing_game_links)
        ELSE [new_df EXCEPT !.rows = <<>>]

(* Lines 197-216: the rows of new_df that merge keeps.                     *)
FilterNew(existing_df, new_df) ==
    LET existing_game_ids ==
            IF "GAMEID" \in existing_df.columns
            THEN ColumnValues(existing_df, "GAMEID") ELSE {}
        existing_game_links ==
            IF "GAMELINK" \in existing_df.columns
            THEN ColumnValues(existing_df, "GAMELINK") ELSE {}
    IN  IF "GAMEID" \in new_df.columns
        THEN NotIsIn(new_df, "GAMEID", existing_game_ids)
        ELSE IF "GAMELINK" \in new_df.columns
        THEN NotIsIn(new_df, "GAMELINK", existing_game_links)
        ELSE new_df

PadRow(r, cols) == [c \in cols |-> IF c \in DOMAIN r THEN r[c] ELSE NaN]
PadRows(rows, cols) == [i \in DOMAIN rows |-> PadRow(rows[i], cols)]

(* Faulty variant: the new rows come first.                                *)
ConcatNewFirst(existing_df, new_df_filtered) ==
    LET cols == existing_df.columns \cup new_df_filtered.columns
    IN  [kind |-> "table", columns |-> cols,
         rows |-> PadRows(new_df_filtered.rows, cols) \o PadRows(existing_df.rows, cols)]

(* pd.concat([existing_df, new_df_filtered], ignore_index=True)            *)
Concat(existing_df, new_df_filtered) ==
    LET cols == existing_df.columns \cup new_df_filtered.columns
    IN  [kind |-> "table", columns |-> cols,
         rows |-> PadRows(existing_df.rows, cols) \o PadRows(new_df_filtered.rows, cols)]

(* Faulty variant: without an existing table the merge gives up.           *)
MergeWithoutExistingFails(new_df) ==
    [ok |-> FALSE, written |-> FALSE, output |-> CsvMissing]

(* Lines 185-190: existing_df is None.                                     *)
MergeWithoutExisting(new_df) ==
    IF new_df # None
    THEN [ok |-> TRUE, written |-> TRUE, output |-> to_csv(new_df)]
    ELSE [ok |-> FALSE, written |-> FALSE, output |-> CsvMissing]

(* merge_csv_files: its result, and the file it writes at output_path.     *)
merge_csv_files(existing_file, new_file) ==
    LET existing_df == read_csv_safely(existing_file)
        new_df == read_csv_safely(new_file)
    IN  IF existing_df = None THEN MergeWithoutExisting(new_df)
        ELSE IF new_df = None \/ new_df.rows = <<>>
        THEN [ok |-> TRUE, written |-> TRUE, output |-> to_csv(existing_df)]
        ELSE LET new_df_filtered == FilterNew(existing_df, new_df)
             IN  IF new_df_filtered.rows = <<>>
                 THEN [ok |-> TRUE, written |-> TRUE, output |-> to_csv(existing_df)]
                 ELSE [ok |-> TRUE, written |-> TRUE,
                       output |-> to_csv(Concat(existing_df, new_df_filtered))]

(* ---------------------- tables: exists, append, flag ------------------ *)
(* Tables with numeric and other identities and with the duplicate flag.   *)
(* IntTexts: the cell texts that pd.read_csv parses as integers.           *)
Flag == "DUPLICATE_ACROSS_DIVISIONS"
IntTexts == {"7"}
TableIds == {"7", "A"}
BoolTexts == {"True", "False"}
TableColumnSets == {{"TEAM"} \cup c : c \in SUBSET {"GAMEID", "GAMELINK", Flag}}
TableCells(col) ==
    CASE col = "GAMEID" -> TableIds
      [] col = "GAMELINK" -> GameLinks
      [] col = Flag -> BoolTexts
      [] OTHER -> Teams
TableRows(cols) ==
    {r \in [cols -> TableIds \cup GameLinks \cup BoolTexts \cup Teams] :
        \A c \in cols : r[c] \in TableCells(c)}
Frames ==
    UNION {{CsvTable(cols, rows) : rows \in SeqsUpTo(TableRows(cols), MaxRows)} :
           cols \in TableColumnSets}
TableFiles == {CsvMissing, CsvUnreadable} \cup Frames

(* df[col].values after pd.read_csv: a column whose cells are all integer  *)
(* texts (or empty) holds numbers, any other column holds the texts as     *)
(* str objects; a number and a str are never equal.                        *)
IsNumericColumn(df, col) ==
    /\ df.rows # <<>>
    /\ \A i \in DOMAIN df.rows : df.rows[i][col] \in IntTexts \cup {NaN}
Str(text) == [type |-> "str", text |-> text]
Values(df, col) ==
    {IF IsNumericColumn(df, col) \/ df.rows[i][col] = NaN
     THEN [type |-> "number", text |-> df.rows[i][col]]
     ELSE Str(df.rows[i][col]) : i \in DOMAIN df.rows}

(* game_exists_in_csv: game_id is a str.                                   *)
game_exists_in_csv(csv, game_id) ==
    IF csv.kind = "missing" THEN FALSE
    ELSE IF csv.kind # "table" THEN FALSE
    ELSE IF "GAMEID" \in csv.columns
         THEN Str(game_id) \in Values(csv, "GAMEID")
         ELSE FALSE

(* get_existing_game_ids: set(df['GAMEID'].values) of the frame that       *)
(* read_csv_safely returns, the empty set without frame or column.         *)
get_existing_game_ids(csv) ==
    LET df == read_csv_safely(csv)
    IN  IF df # None /\ "GAMEID" \in df.columns THEN Values(df, "GAMEID") ELSE {}

(* The header line and a data line that to_csv writes: the columns in the  *)
(* order of the frame, which is the order of ColumnOrder in this model.    *)
ColumnOrder == <<"GAMEID", "GAMELINK", "TEAM", Flag>>
Header(cols) == SelectSeq(ColumnOrder, LAMBDA c : c \in cols)
Line(r, cols) == [i \in DOMAIN Header(cols) |-> r[Header(cols)[i]]]
Lines(df) == [i \in DOMAIN df.rows |-> Line(df.rows[i], df.columns)]

(* pd.read_csv on a header and data lines.  A line shorter than the header *)
(* is filled with NaN.  When the first data line is longer than the header *)
(* its leading fields become the index and the names go to the last ones;  *)
(* a later line longer than the lines before is a ParserError.             *)
ReadLines(header, lines) ==
    LET n == Len(header)
        lead == IF lines # <<>> /\ Len(lines[1]) > n THEN Len(lines[1]) - n ELSE 0
    IN  IF \E i \in DOMAIN lines : Len(lines[i]) > n + lead
        THEN CsvUnreadable
        ELSE CsvTable(Range(header),
                 [i \in DOMAIN lines |->
                    [c \in Range(header) |->
                        LET k == lead + CHOOSE j \in DOMAIN header : header[j] = c
                        IN  IF k <= Len(lines[i]) THEN lines[i][k] ELSE NaN]])

(* append_game_data: the result and the file as pd.read_csv finds it       *)
(* afterwards.  The rows are written without a header whenever the file    *)
(* exists, whatever its header is.  An existing file that cannot be read   *)
(* stays so, unless it was empty: then the first line written is read as   *)
(* the header.                                                             *)
append_game_data(csv, game_data_df) ==
    IF csv.kind = "missing"
    THEN {[ok |-> TRUE, output |-> to_csv(game_data_df)]}
    ELSE IF csv.kind = "table"
    THEN {[ok |-> TRUE,
           output |-> ReadLines(Header(csv.columns), Lines(csv) \o Lines(game_data_df))]}
    ELSE IF game_data_df.rows = <<>>
    THEN {[ok |-> TRUE, output |-> csv]}
    ELSE {[ok |-> TRUE, output |-> csv],
          [ok |-> TRUE,
           output |-> ReadLines(Lines(game_data_df)[1], Tail(Lines(game_data_df)))]}

(* to_csv writes a bool as True or False.                                  *)
BoolText(b) == IF b THEN "True" ELSE "False"

(* Faulty variant: the flag is set on every row.                           *)
UpdateFlagRowsAll(df, game_link, duplicate_value) ==
    [i \in DOMAIN df.rows |->
        [c \in df.columns \cup {Flag} |->
            IF c = Flag THEN BoolText(duplicate_value) ELSE df.rows[i][c]]]

(* Lines 152-157: the rows with the flag column added and set.             *)
UpdateFlagRows(df, game_link, duplicate_value) ==
    [i \in DOMAIN df.rows |->
        [c \in df.columns \cup {Flag} |->
            IF c # Flag THEN df.rows[i][c]
            ELSE IF df.rows[i]["GAMELINK"] = game_link THEN BoolText(duplicate_value)
            ELSE IF Flag \in df.columns THEN df.rows[i][Flag]
            ELSE BoolText(FALSE)]]

update_duplicate_flag(csv, game_link, duplicate_value) ==
    LET df == read_csv_safely(csv)
    IN  IF df = None THEN [ok |-> FALSE, output |-> csv]
        ELSE IF "GAMELINK" \notin df.columns THEN [ok |-> FALSE, output |-> csv]
        ELSE [ok |-> TRUE,
              output |-> to_csv(CsvTable(df.columns \cup {Flag},
                                         UpdateFlagRows(df, game_link, duplicate_value)))]

(* ------------------------------ actions ------------------------------- *)
(* last: the call that produced the current state.  existed: the key had a *)
(* record when the call started.  listed: a load and query for the call's  *)
(* (date, division, gender) right after it lists the call's game.          *)
(* outcome: "returned", "caught" (returned after the except branch logged  *)
(* an error) or "raised" (the exception reached the caller).               *)
NoCall == [op |-> "none", success |-> FALSE, existed |-> FALSE, listed |-> FALSE,
           outcome |-> "returned"]

Call(op, success, existed, listed, outcome) ==
    [op |-> op, success |-> success, existed |-> existed, listed |-> listed,
     outcome |-> outcome]

(* hist: the calls made so far on one watched key.  saved: the error       *)
(* fields of the most recent save since the record was created; fails: the *)
(* mark_retried(success=False) calls since the last mark_retried(          *)
(* success=True) or the start; hits: those made since the record was       *)
(* created.                                                                *)
NoErr == [error_type |-> "", error_message |-> ""]
NoHist == [watching |-> FALSE, key |-> <<>>, saved |-> NoErr, fails |-> 0, hits |-> 0]
Watch(key) == [watching |-> TRUE, key |-> key, saved |-> NoErr, fails |-> 0, hits |-> 0]

HistSave(h, key, err, existed, outcome) ==
    IF ~h.watching \/ h.key # key \/ outcome # "returned" THEN h
    ELSE [h EXCEPT !.saved = err, !.hits = IF existed THEN @ ELSE 0]

HistMark(h, key, success, existed, outcome) ==
    IF ~h.watching \/ h.key # key THEN h
    ELSE IF success
    THEN IF existed /\ outcome = "returned"
         THEN [h EXCEPT !.fails = 0, !.hits = 0, !.saved = NoErr]
         ELSE [h EXCEPT !.fails = 0]
    ELSE [h EXCEPT !.fails = @ + 1,
                   !.hits = IF existed /\ outcome = "returned" THEN @ + 1 ELSE @]

Keys == {<<isoformat(date), game_link, c[1], c[2]>> :
            date \in Dates, game_link \in Games, c \in Combos}

(* All entries of a dict of lists, and of the ledger, in order.            *)
RECURSIVE Flatten(_, _)
Flatten(d, i) == IF i > Len(d) THEN <<>> ELSE d[i].val \o Flatten(d, i + 1)
AllEntries(d) == Flatten([i \in DOMAIN d |-> [val |-> Flatten(d[i].val, 1)]], 1)

(* The bounds of the model: records held, and the counters.                *)
Bounded(f, h) ==
    LET entries == AllEntries(Ledger(f))
    IN  /\ Len(entries) <= MaxRecords
        /\ \A i \in DOMAIN entries :
              EntryGet(entries[i], "retry_count", 0) <= MaxRetry
        /\ h.fails <= MaxRetry

(* The entry loop of save and mark_retried finds an entry of the key.      *)
Existed(d, key) ==
    /\ DictHas(d, key[1])
    /\ DictHas(DictGet(d, key[1]), key[2])
    /\ FindEntry(DictGet(DictGet(d, key[1]), key[2]), 1, key[3], key[4]) > 0

Save(io, games, dates) ==
    \E game_link \in games, date \in dates, c \in Combos, err \in Errors :
        LET division == c[1]
            gender == c[2]
            r == save_failed_game(file, game_link, date, division, gender,
                                  err.error_type, err.error_message, io)
            key == <<isoformat(date), game_link, division, gender>>
            existed == Existed(Ledger(file), key)
        IN  /\ file' = r.file
            /\ last' = Call("save", FALSE, existed,
                            Listed(r.file, game_link, date, division, gender),
                            r.outcome)
            /\ hist' = HistSave(hist, key, err, existed, r.outcome)
            /\ Bounded(file', hist')
            /\ UNCHANGED <<csv_vars, call_vars, procs, run>>

MarkRetried(io, games, dates) ==
    \E game_link \in games, target_date \in dates, c \in Combos,
       success \in BOOLEAN :
        LET division == c[1]
            gender == c[2]
            r == mark_game_as_retried(file, game_link, target_date, division,
                                      gender, success, io)
            key == <<isoformat(target_date), game_link, division, gender>>
            existed == Existed(Ledger(file), key)
        IN  /\ file' = r.file
            /\ last' = Call("mark", success, existed,
                            Listed(r.file, game_link, target_date, division, gender),
                            r.outcome)
            /\ hist' = HistMark(hist, key, success, existed, r.outcome)
            /\ Bounded(file', hist')
            /\ UNCHANGED <<csv_vars, call_vars, procs, run>>

(* load, then query, as the retry pass of main.py does.                    *)
LoadQuery(io, dates) ==
    \E target_date \in dates, with_date \in BOOLEAN, c \in Combos :
        LET division == c[1]
            gender == c[2]
            failed_games == load_failed_games(
                                file, IF with_date THEN target_date ELSE NoDate, io)
            q == get_failed_games_for_division_gender(
                     failed_games, target_date, division, gender)
        IN  /\ last' = Call("query", FALSE, FALSE, q.games # <<>>,
                            IF q.raised THEN "raised" ELSE "returned")
            /\ UNCHANGED <<file, hist, csv_vars, call_vars, procs, run>>

(* The ledger used through save and mark_retried alone, from no file.      *)
NoTables ==
    /\ existing_csv = CsvMissing /\ new_csv = CsvMissing
    /\ output_csv = CsvMissing /\ reoutput_csv = CsvMissing
    /\ result = FALSE /\ pc = "idle"

(* call: one call with its arguments; before: the ledger file when it      *)
(* started; ret: what it returned (loaded: the dict a load returned, for   *)
(* save and mark_retried the dict a load without date returns right after  *)
(* the call, for a query the dict it was given; games: the list a query    *)
(* returned).  procs: the calls in progress in concurrent processes, each  *)
(* with the file content it read (snapshot) and whether the other call was *)
(* in progress when it started (concurrent).                               *)
NoArgs ==
    [op |-> "none", game_link |-> 0, date |-> NoDate, division |-> "", gender |-> "",
     error_type |-> "", error_message |-> "", success |-> FALSE,
     with_date |-> FALSE, identity |-> ""]
NoRet ==
    [loaded |-> EmptyDict, games |-> <<>>, raised |-> FALSE, again |-> EmptyDict,
     ids |-> {}]
Procs == {1, 2}
NotStarted == [pc |-> "start", args |-> NoArgs, snapshot |-> FileMissing,
               concurrent |-> FALSE]
NoProcs == [p \in Procs |-> NotStarted]
(* run: one pass of main: where it is (pc), the dict it loaded, the groups *)
(* and game links still to do, the ledger file when it started, what it   *)
(* attempted with which outcome, and for the tables the flags of the pass, *)
(* whether merge was called and on which snapshot, the table the loop     *)
(* left at csv_path and what was uploaded.                                 *)
NoRun ==
    [pc |-> "idle", is_retry |-> FALSE, date |-> NoDate, division |-> "", gender |-> "",
     groups |-> <<>>, game_links |-> <<>>, loaded |-> EmptyDict, start |-> FileMissing,
     attempts |-> <<>>, driver_failed |-> FALSE, upload_to_gdrive |-> FALSE,
     downloaded |-> FALSE, merged |-> FALSE, snapshot |-> None, scraped |-> None,
     uploaded |-> None]
Unobserved ==
    /\ before = FileMissing /\ call = NoArgs /\ ret = NoRet /\ procs = NoProcs
    /\ run = NoRun

Init == file = FileMissing /\ last = NoCall /\ hist = NoHist /\ NoTables /\ Unobserved

Next == Save(IoOk, Games, Dates) \/ MarkRetried(IoOk, Games, Dates)

Spec == Init /\ [][Next]_vars

(* The same on the games of one date, with the calls on one key recorded.  *)
(* The code treats all keys alike, so one watched key stands for any.      *)
OneDate == {CHOOSE d \in Dates : d.day = 12}
WatchedKeys == {<<isoformat(d), 1, "d1", "men">> : d \in OneDate}

InitHist ==
    /\ file = FileMissing /\ last = NoCall /\ hist \in {Watch(k) : k \in WatchedKeys}
    /\ NoTables /\ Unobserved

NextHist == Save(IoOk, Games, OneDate) \/ MarkRetried(IoOk, Games, OneDate)

SpecHist == InitHist /\ [][NextHist]_vars

(* The ledger on any store and with I/O failures: the file may have been   *)
(* written by something else, and every read and write may fail.           *)
(* What a failure does to the file does not depend on which key is used:   *)
(* the calls of this specification use one game of one date.               *)
FaultDates == OneDate
FaultGames == {CHOOSE g \in Games : g = 1}

BadEntryNoDivision ==
    [gender |-> "men", error_type |-> "timeout",
     error_message |-> "Game failed to scrape", retry_count |-> 0]
BadEntryNoRetryCount ==
    [division |-> "d1", gender |-> "men", error_type |-> "timeout",
     error_message |-> "Game failed to scrape"]
OneEntryLedger(entry) ==
    <<[key |-> isoformat(CHOOSE d \in FaultDates : TRUE),
       val |-> <<[key |-> CHOOSE g \in FaultGames : TRUE, val |-> <<entry>>]>>]>>
StoreStates ==
    {FileMissing, FileCorrupt, FileArray,
     FileObject(OneEntryLedger(BadEntryNoDivision)),
     FileObject(OneEntryLedger(BadEntryNoRetryCount))}

InitFault ==
    /\ file \in StoreStates /\ last = NoCall /\ hist = NoHist /\ NoTables
    /\ Unobserved

NextFault ==
    \E io \in {IoOk} \cup IoFaults :
        \/ Save(io, FaultGames, FaultDates)
        \/ MarkRetried(io, FaultGames, FaultDates)
        \/ LoadQuery(io, FaultDates)

SpecFault == InitFault /\ [][NextFault]_vars

(* One call observed with its arguments, the file before it and what it   *)
(* returned, on the ledger that earlier save and mark_retried calls left.  *)
(* The first calls may find no file, an unparsable file, or a record that  *)
(* an older version wrote without retry_count.                             *)
SaveArgs(game_link, date, c, err) ==
    [NoArgs EXCEPT !.op = "save", !.game_link = game_link, !.date = date,
                   !.division = c[1], !.gender = c[2],
                   !.error_type = err.error_type,
                   !.error_message = err.error_message]
MarkArgs(game_link, target_date, c, success) ==
    [NoArgs EXCEPT !.op = "mark", !.game_link = game_link, !.date = target_date,
                   !.division = c[1], !.gender = c[2], !.success = success]
ArgsKey(a) == <<isoformat(a.date), a.game_link, a.division, a.gender>>
LoadAll(f) == load_failed_games(f, NoDate, IoOk)

EarlierSave ==
    /\ call = NoArgs
    /\ \E game_link \in Games, date \in Dates, c \in Combos, err \in Errors :
          file' = save_failed_game(file, game_link, date, c[1], c[2],
                                   err.error_type, err.error_message, IoOk).file
    /\ Bounded(file', hist)
    /\ UNCHANGED <<last, hist, csv_vars, call_vars, procs, run>>

EarlierMark ==
    /\ call = NoArgs
    /\ \E game_link \in Games, target_date \in Dates, c \in Combos,
          success \in BOOLEAN :
          file' = mark_game_as_retried(file, game_link, target_date, c[1], c[2],
                                       success, IoOk).file
    /\ Bounded(file', hist)
    /\ UNCHANGED <<last, hist, csv_vars, call_vars, procs, run>>

ObservedSave ==
    /\ call = NoArgs
    /\ \E game_link \in Games, date \in Dates, c \in Combos, err \in Errors :
          LET r == save_failed_game(file, game_link, date, c[1], c[2],
                                    err.error_type, err.error_message, IoOk)
          IN  /\ file' = r.file
              /\ call' = SaveArgs(game_link, date, c, err)
              /\ ret' = [NoRet EXCEPT !.loaded = LoadAll(r.file),
                                      !.raised = r.outcome = "raised"]
    /\ before' = file
    /\ Bounded(file', hist)
    /\ UNCHANGED <<last, hist, csv_vars, procs, run>>

ObservedMark ==
    /\ call = NoArgs
    /\ \E game_link \in Games, target_date \in Dates, c \in Combos,
          success \in BOOLEAN :
          LET r == mark_game_as_retried(file, game_link, target_date, c[1], c[2],
                                        success, IoOk)
          IN  /\ file' = r.file
              /\ call' = MarkArgs(game_link, target_date, c, success)
              /\ ret' = [NoRet EXCEPT !.loaded = LoadAll(r.file)]
    /\ before' = file
    /\ Bounded(file', hist)
    /\ UNCHANGED <<last, hist, csv_vars, procs, run>>

ObservedLoad ==
    /\ call = NoArgs
    /\ \E target_date \in Dates \cup {NoDate} :
          /\ call' = [NoArgs EXCEPT !.op = "load", !.date = target_date,
                                    !.with_date = target_date # NoDate]
          /\ ret' = [NoRet EXCEPT !.loaded = load_failed_games(file, target_date, IoOk)]
    /\ before' = file
    /\ file' = FileAfterLoad(file)
    /\ UNCHANGED <<last, hist, csv_vars, procs, run>>

(* A dict in which a game holds two records of one (division, gender), as *)
(* a file edited by hand can.                                              *)
DoubledStore ==
    <<[key |-> isoformat(CHOOSE d \in OneDate : TRUE),
       val |-> <<[key |-> 1,
                  val |-> <<NewEntry("d1", "men", "timeout", "Game failed to scrape"),
                            NewEntry("d1", "men", "exception", "boom")>>]>>]>>

(* The query on what load returned, for a date or for all dates, or on a   *)
(* dict of the caller.                                                     *)
ObservedQuery ==
    /\ call = NoArgs
    /\ \E failed_games \in
              {load_failed_games(file, d, IoOk) : d \in Dates \cup {NoDate}}
              \cup {[kind |-> "object", data |-> DoubledStore]},
          target_date \in Dates, c \in Combos :
          LET q == get_failed_games_for_division_gender(
                       failed_games, target_date, c[1], c[2])
          IN  /\ call' = [NoArgs EXCEPT !.op = "query", !.date = target_date,
                                        !.division = c[1], !.gender = c[2]]
              /\ ret' = [NoRet EXCEPT !.loaded = failed_games, !.games = q.games,
                                      !.raised = q.raised]
    /\ before' = file
    /\ UNCHANGED <<file, last, hist, csv_vars, procs, run>>

InitCalls ==
    /\ file \in {FileMissing, FileCorrupt,
                  FileObject(OneEntryLedger(BadEntryNoRetryCount))}
    /\ last = NoCall /\ hist = NoHist /\ NoTables /\ Unobserved

NextCalls ==
    \/ EarlierSave \/ EarlierMark
    \/ ObservedSave \/ ObservedMark \/ ObservedLoad \/ ObservedQuery

SpecCalls == InitCalls /\ [][NextCalls]_vars

(* Two calls in a row on the ledger the earlier calls left: the same load *)
(* twice, and a save followed by mark_retried with success on its key.     *)
ObservedLoadAgain ==
    /\ call.op = "load"
    /\ call' = [call EXCEPT !.op = "load_again"]
    /\ ret' = [ret EXCEPT !.again = load_failed_games(file, call.date, IoOk)]
    /\ file' = FileAfterLoad(file)
    /\ UNCHANGED <<before, last, hist, csv_vars, procs, run>>

ObservedMarkAfterSave ==
    /\ call.op = "save" /\ ~ret.raised
    /\ LET r == mark_game_as_retried(file, call.game_link, call.date, call.division,
                                      call.gender, TRUE, IoOk)
       IN  /\ file' = r.file
           /\ ret' = [ret EXCEPT !.loaded = LoadAll(r.file)]
    /\ call' = [call EXCEPT !.op = "save_mark", !.success = TRUE]
    /\ UNCHANGED <<before, last, hist, csv_vars, procs, run>>

NextPairs ==
    \/ EarlierSave \/ EarlierMark
    \/ ObservedLoad \/ ObservedLoadAgain
    \/ ObservedSave \/ ObservedMarkAfterSave

SpecPairs == InitCalls /\ [][NextPairs]_vars

(* merge on any two files, and then again with its output as new table.   *)
Merge ==
    /\ pc = "start"
    /\ LET r == merge_csv_files(existing_csv, new_csv)
       IN  /\ output_csv' = IF r.written THEN r.output ELSE output_csv
           /\ result' = r.ok
    /\ pc' = "merged"
    /\ UNCHANGED <<existing_csv, new_csv, reoutput_csv, ledger_vars, call_vars, procs, run>>

Remerge ==
    /\ pc = "merged"
    /\ LET r == merge_csv_files(existing_csv, output_csv)
       IN  /\ reoutput_csv' = IF r.written THEN r.output ELSE reoutput_csv
           /\ result' = r.ok
    /\ pc' = "remerged"
    /\ UNCHANGED <<existing_csv, new_csv, output_csv, ledger_vars, call_vars, procs, run>>

InitMerge ==
    /\ file = FileMissing /\ last = NoCall /\ hist = NoHist
    /\ existing_csv \in CsvFiles /\ new_csv \in CsvFiles
    /\ output_csv = CsvMissing /\ reoutput_csv = CsvMissing
    /\ result = FALSE /\ pc = "start"
    /\ Unobserved

NextMerge == Merge \/ Remerge

SpecMerge == InitMerge /\ [][NextMerge]_vars

(* One call of exists, append or set_duplicate_flag on any table file.     *)
Exists ==
    /\ pc = "start"
    /\ \E game_id \in TableIds :
          /\ result' = game_exists_in_csv(existing_csv, game_id)
          /\ call' = [NoArgs EXCEPT !.op = "exists", !.identity = game_id]
    /\ output_csv' = existing_csv
    /\ pc' = "exists"
    /\ UNCHANGED <<existing_csv, new_csv, reoutput_csv, ledger_vars, before, ret, procs, run>>

AppendRows ==
    /\ pc = "start"
    /\ \E game_data_df \in Frames :
          \E r \in append_game_data(existing_csv, game_data_df) :
              /\ new_csv' = game_data_df
              /\ output_csv' = r.output
              /\ result' = r.ok
    /\ call' = [NoArgs EXCEPT !.op = "append"]
    /\ pc' = "appended"
    /\ UNCHANGED <<existing_csv, reoutput_csv, ledger_vars, before, ret, procs, run>>

SetFlag ==
    /\ pc = "start"
    /\ \E game_link \in GameLinks, duplicate_value \in BOOLEAN :
          LET r == update_duplicate_flag(existing_csv, game_link, duplicate_value)
          IN  /\ output_csv' = r.output
              /\ result' = r.ok
              /\ call' = [NoArgs EXCEPT !.op = "flag", !.identity = game_link,
                                        !.success = duplicate_value]
    /\ pc' = "flagged"
    /\ UNCHANGED <<existing_csv, new_csv, reoutput_csv, ledger_vars, before, ret, procs, run>>

(* get_existing_game_ids on the file as the call before left it.           *)
GetExistingIds ==
    /\ pc \in {"exists", "appended"}
    /\ ret' = [ret EXCEPT !.ids = get_existing_game_ids(output_csv)]
    /\ pc' = IF pc = "exists" THEN "exists_ids" ELSE "appended_ids"
    /\ UNCHANGED <<existing_csv, new_csv, output_csv, reoutput_csv, result,
                   ledger_vars, before, call, procs, run>>

InitTable ==
    /\ file = FileMissing /\ last = NoCall /\ hist = NoHist
    /\ existing_csv \in TableFiles /\ new_csv = CsvMissing
    /\ output_csv = CsvMissing /\ reoutput_csv = CsvMissing
    /\ result = FALSE /\ pc = "start"
    /\ Unobserved

NextTable == Exists \/ AppendRows \/ SetFlag \/ GetExistingIds

SpecTable == InitTable /\ [][NextTable]_vars

(* Two processes that each make one save or mark_retried call, on          *)
(* different keys, with no lock around the file.  A call reads the file    *)
(* (lines 38-41, 167-172), works on what it read, opens the file for       *)
(* writing, which truncates it, and dumps its dict (lines 78-79, 201-202). *)
RaceDates == OneDate
RaceError == CHOOSE err \in Errors : err.error_type = "timeout"
RaceStores ==
    {FileMissing,
     FileObject(OneEntryLedger(NewEntry("d1", "men", "exception", "boom")))}
RaceCalls ==
    {SaveArgs(g, d, c, RaceError) : g \in Games, d \in RaceDates, c \in Combos}
    \cup {MarkArgs(g, d, c, success) :
              g \in Games, d \in RaceDates, c \in Combos, success \in BOOLEAN}

(* Faulty variant: the call works on an empty ledger whatever it reads.    *)
SnapshotNothing(f) == FileMissing

(* What a call reads at its start.                                         *)
Snapshot(f) == f

(* The call run on the file content it read.                               *)
RunOn(f, a) ==
    IF a.op = "save"
    THEN save_failed_game(f, a.game_link, a.date, a.division, a.gender,
                          a.error_type, a.error_message, IoOk)
    ELSE mark_game_as_retried(f, a.game_link, a.date, a.division, a.gender,
                              a.success, IoOk)

(* The call reaches its with open(path, 'w'): save unless it raised, and   *)
(* mark_retried when it found the date and the game in what it read.       *)
ReachesWrite(f, a) ==
    IF a.op = "save" THEN RunOn(f, a).outcome = "returned"
    ELSE /\ f.kind = "object"
         /\ EntriesAt(f.data, isoformat(a.date), a.game_link) # <<>>
         /\ RunOn(f, a).outcome = "returned"

InProgress(q) == procs[q].pc \in {"loaded", "opened"}

Begin(p) ==
    /\ procs[p].pc = "start"
    /\ \E a \in RaceCalls :
          /\ \A q \in Procs \ {p} : ArgsKey(procs[q].args) # ArgsKey(a)
          /\ procs' = [procs EXCEPT ![p] =
                [pc |-> IF ReachesWrite(Snapshot(file), a) THEN "loaded" ELSE "done",
                 args |-> a,
                 snapshot |-> Snapshot(file),
                 concurrent |-> \E q \in Procs \ {p} : InProgress(q)]]
    /\ UNCHANGED <<ledger_vars, csv_vars, call_vars, run>>

OpenForWrite(p) ==
    /\ procs[p].pc = "loaded"
    /\ file' = FileCorrupt
    /\ procs' = [procs EXCEPT ![p].pc = "opened"]
    /\ UNCHANGED <<last, hist, csv_vars, call_vars, run>>

Dump(p) ==
    /\ procs[p].pc = "opened"
    /\ file' = RunOn(procs[p].snapshot, procs[p].args).file
    /\ procs' = [procs EXCEPT ![p].pc = "done"]
    /\ UNCHANGED <<last, hist, csv_vars, call_vars, run>>

InitRace ==
    /\ file \in RaceStores /\ before = file
    /\ last = NoCall /\ hist = NoHist /\ NoTables
    /\ call = NoArgs /\ ret = NoRet /\ procs = NoProcs /\ run = NoRun

NextRace == \E p \in Procs : Begin(p) \/ OpenForWrite(p) \/ Dump(p)

SpecRace == InitRace /\ [][NextRace]_vars


(* ------------------------------ a pass -------------------------------- *)
(* One pass of main over the ledger that earlier calls left: the retry     *)
(* mode (lines 158-210) or the scraping of one division and gender from a  *)
(* mapping (lines 212-250), both through _scrape_games_from_mapping.  What *)
(* the browser does is the environment's choice: the driver starts or not, *)
(* a game is scraped, fails (no data) or raises.                           *)
all_divisions == <<"d1", "d2">>
all_genders == <<"men", "women">>
AllGroups ==
    [i \in 1..(Len(all_divisions) * Len(all_genders)) |->
        <<all_divisions[((i - 1) \div Len(all_genders)) + 1],
          all_genders[((i - 1) % Len(all_genders)) + 1]>>]
Outcomes == {"scraped", "failed", "exception"}
MappingLinks ==
    {s \in SeqsUpTo(Games, NumGames) : s # <<>> /\ \A i, j \in DOMAIN s : i # j => s[i] # s[j]}

(* Faulty variant: a failed retry saves the record and does not count it.  *)
LedgerAfterAttemptUncounted(f, game_link, target_date, division, gender, outcome, is_retry) ==
    IF outcome = "scraped"
    THEN IF is_retry
         THEN mark_game_as_retried(f, game_link, target_date, division, gender,
                                   TRUE, IoOk).file
         ELSE f
    ELSE save_failed_game(f, game_link, target_date, division, gender,
                          IF outcome = "failed" THEN "timeout" ELSE "exception",
                          IF outcome = "failed" THEN "Game failed to scrape" ELSE "boom",
                          IoOk).file

(* Faulty variant: the outcome is reported to the ledger in every pass.    *)
LedgerAfterAttemptAlwaysMarks(f, game_link, target_date, division, gender, outcome, is_retry) ==
    IF outcome = "scraped"
    THEN mark_game_as_retried(f, game_link, target_date, division, gender,
                              TRUE, IoOk).file
    ELSE mark_game_as_retried(
             save_failed_game(f, game_link, target_date, division, gender,
                              IF outcome = "failed" THEN "timeout" ELSE "exception",
                              IF outcome = "failed" THEN "Game failed to scrape"
                              ELSE "boom",
                              IoOk).file,
             game_link, target_date, division, gender, FALSE, IoOk).file

(* Lines 458-482 and 496-515: the ledger calls of one game of the loop.    *)
LedgerAfterAttempt(f, game_link, target_date, division, gender, outcome, is_retry) ==
    IF outcome = "scraped"
    THEN IF is_retry
         THEN mark_game_as_retried(f, game_link, target_date, division, gender,
                                   TRUE, IoOk).file
         ELSE f
    ELSE LET saved ==
                 save_failed_game(f, game_link, target_date, division, gender,
                                  IF outcome = "failed" THEN "timeout" ELSE "exception",
                                  IF outcome = "failed" THEN "Game failed to scrape"
                                  ELSE "boom",
                                  IoOk).file
         IN  IF is_retry
             THEN mark_game_as_retried(saved, game_link, target_date, division, gender,
                                       FALSE, IoOk).file
             ELSE saved

(* Faulty variant: a game that was not scraped goes back on the list.      *)
RemainingRequeued(game_links, outcome) ==
    IF outcome = "scraped" THEN Tail(game_links)
    ELSE Append(Tail(game_links), Head(game_links))

(* for idx, game_link in enumerate(game_links, 1): the list is walked once. *)
Remaining(game_links, outcome) == Tail(game_links)

(* The save and mark_retried calls before the pass, as the loop of an      *)
(* earlier pass makes them.                                                *)
PriorSave ==
    /\ run = NoRun
    /\ \E game_link \in Games, date \in Dates, c \in Combos :
          file' = save_failed_game(file, game_link, date, c[1], c[2],
                                   "timeout", "Game failed to scrape", IoOk).file
    /\ Bounded(file', hist)
    /\ UNCHANGED <<last, hist, csv_vars, call_vars, procs, run>>

PriorMark ==
    /\ run = NoRun
    /\ \E game_link \in Games, target_date \in Dates, c \in Combos,
          success \in BOOLEAN :
          file' = mark_game_as_retried(file, game_link, target_date, c[1], c[2],
                                       success, IoOk).file
    /\ Bounded(file', hist)
    /\ UNCHANGED <<last, hist, csv_vars, call_vars, procs, run>>

(* Lines 158-181: the single load of the retry mode.                       *)
StartRetry ==
    /\ run = NoRun
    /\ \E target_date \in Dates :
          LET failed_games == load_failed_games(file, target_date, IoOk)
              date_key == isoformat(target_date)
          IN  run' = [NoRun EXCEPT
                        !.pc = IF ~DictHas(failed_games.data, date_key)
                                  \/ DictGet(failed_games.data, date_key) = <<>>
                               THEN "done" ELSE "groups",
                        !.is_retry = TRUE, !.date = target_date,
                        !.loaded = failed_games, !.groups = AllGroups,
                        !.start = file]
    /\ UNCHANGED <<ledger_vars, csv_vars, call_vars, procs>>

(* Lines 183-206: the next division and gender, with the games the loaded  *)
(* dict lists for them.                                                    *)
NextGroup ==
    /\ run.pc = "groups"
    /\ IF run.groups = <<>>
       THEN run' = [run EXCEPT !.pc = "done"]
       ELSE LET g == Head(run.groups)
                game_links == get_failed_games_for_division_gender(
                                  run.loaded, run.date, g[1], g[2]).games
            IN  IF game_links = <<>>
                THEN run' = [run EXCEPT !.groups = Tail(run.groups)]
                ELSE run' = [run EXCEPT !.pc = "driver", !.division = g[1],
                                        !.gender = g[2], !.game_links = game_links,
                                        !.groups = Tail(run.groups)]
    /\ UNCHANGED <<ledger_vars, csv_vars, call_vars, procs>>

(* Lines 212-247: one division and gender with the games of the mapping.   *)
StartScrape ==
    /\ run = NoRun
    /\ \E target_date \in Dates, c \in Combos, game_links \in MappingLinks :
          run' = [NoRun EXCEPT !.pc = "driver", !.date = target_date,
                               !.division = c[1], !.gender = c[2],
                               !.game_links = game_links, !.start = file]
    /\ UNCHANGED <<ledger_vars, csv_vars, call_vars, procs>>

(* Lines 400-405: without a driver the function returns.                   *)
StartDriver ==
    /\ run.pc = "driver"
    /\ \E started \in BOOLEAN :
          run' = IF started THEN [run EXCEPT !.pc = "loop"]
                 ELSE [run EXCEPT !.pc = IF run.is_retry THEN "groups" ELSE "done",
                                  !.game_links = <<>>, !.driver_failed = TRUE]
    /\ UNCHANGED <<ledger_vars, csv_vars, call_vars, procs>>

(* Lines 411-517: one game of the loop.                                    *)
ScrapeGame ==
    /\ run.pc = "loop" /\ run.game_links # <<>>
    /\ \E outcome \in Outcomes :
          LET game_link == Head(run.game_links)
          IN  /\ file' = LedgerAfterAttempt(file, game_link, run.date, run.division,
                                            run.gender, outcome, run.is_retry)
              /\ run' = [run EXCEPT
                            !.game_links = Remaining(run.game_links, outcome),
                            !.attempts = Append(@,
                                [key |-> <<isoformat(run.date), game_link,
                                           run.division, run.gender>>,
                                 outcome |-> outcome])]
    /\ UNCHANGED <<last, hist, csv_vars, call_vars, procs>>

(* merge_csv_files with its except branch (lines 232-234): to_csv raises   *)
(* after opening the output file.                                          *)
MergeIo == {"ok", "to_csv_fails"}
MergeOrFail(existing_file, new_file, io) ==
    LET r == merge_csv_files(existing_file, new_file)
    IN  IF io = "to_csv_fails" /\ r.written
        THEN [ok |-> FALSE, written |-> TRUE, output |-> CsvUnreadable]
        ELSE r

(* file_manager.file_exists_and_has_content: a file of at least one byte;  *)
(* a file that cannot be read as a table is empty or not.                  *)
file_exists_and_has_content(csv, nonempty) ==
    csv.kind = "table" \/ (csv.kind = "unreadable" /\ nonempty)

(* Faulty variant: the merged table stays at the .merged path.             *)
MoveMergedNowhere(merged, csv) == csv

(* shutil.move(merged_csv_path, csv_path).                                 *)
MoveMerged(merged, csv) == merged

(* Lines 519-548: after the loop the snapshot that was downloaded is       *)
(* merged with the table at csv_path, and the table is uploaded.           *)
EndLoop ==
    /\ run.pc = "loop" /\ run.game_links = <<>>
    /\ \E io \in MergeIo, nonempty \in BOOLEAN :
          LET merging == run.is_retry /\ run.downloaded /\ existing_csv.kind # "missing"
              r == MergeOrFail(existing_csv, new_csv, io)
              moved == merging /\ r.ok
              csv_path == IF moved THEN MoveMerged(r.output, new_csv) ELSE new_csv
          IN  /\ new_csv' = csv_path
              /\ existing_csv' = IF moved THEN CsvMissing ELSE existing_csv
              /\ output_csv' = IF ~merging THEN output_csv
                               ELSE IF r.ok THEN CsvMissing
                               ELSE IF r.written THEN r.output ELSE output_csv
              /\ result' = IF merging THEN r.ok ELSE result
              /\ run' = [run EXCEPT
                            !.pc = IF run.is_retry THEN "groups" ELSE "done",
                            !.merged = merging,
                            !.snapshot = existing_csv,
                            !.scraped = new_csv,
                            !.uploaded =
                                IF run.upload_to_gdrive
                                   /\ file_exists_and_has_content(csv_path, nonempty)
                                THEN csv_path ELSE None]
    /\ UNCHANGED <<reoutput_csv, pc, ledger_vars, call_vars, procs>>

InitPass ==
    /\ file = FileMissing /\ last = NoCall /\ hist = NoHist /\ NoTables /\ Unobserved

PassStep == NextGroup \/ StartDriver \/ ScrapeGame \/ EndLoop

NextPass == PriorSave \/ PriorMark \/ StartRetry \/ StartScrape \/ PassStep

SpecPass == InitPass /\ [][NextPass]_vars

(* The pass is one sequential process that keeps running once started:    *)
(* its next step is taken whenever there is one.                           *)
SpecPassLive == SpecPass /\ WF_vars(PassStep)

(* The end of a group on any two table files: with or without upload, and  *)
(* in a retry with upload with or without a snapshot that was downloaded.  *)
InitFinish ==
    /\ file = FileMissing /\ last = NoCall /\ hist = NoHist
    /\ before = FileMissing /\ call = NoArgs /\ ret = NoRet /\ procs = NoProcs
    /\ \E is_retry \in BOOLEAN, upload_to_gdrive \in BOOLEAN, downloaded \in BOOLEAN :
          /\ downloaded => (is_retry /\ upload_to_gdrive)
          /\ run = [NoRun EXCEPT !.pc = "loop", !.is_retry = is_retry,
                                 !.date = CHOOSE d \in OneDate : TRUE,
                                 !.division = "d1", !.gender = "men",
                                 !.upload_to_gdrive = upload_to_gdrive,
                                 !.downloaded = downloaded]
          /\ existing_csv \in IF downloaded THEN CsvFiles ELSE {CsvMissing}
    /\ new_csv \in CsvFiles
    /\ output_csv = CsvMissing /\ reoutput_csv = CsvMissing
    /\ result = FALSE /\ pc = "idle"

NextFinish == EndLoop

SpecFinish == InitFinish /\ [][NextFinish]_vars

(* ------------------------------ claims -------------------------------- *)

(* C1: from no ledger file, after any save and mark_retried calls the      *)
(* persisted ledger holds at most one record for every (date, game,        *)
(* division, gender): a save on a key that has a record does not append.   *)
AtMostOneRecordPerKey ==
    \A s \in Slots(Ledger(file)), t \in Slots(Ledger(file)) :
        SlotKey(Ledger(file), s) = SlotKey(Ledger(file), t) => s = t

(* A save on a key that had a record, in a ledger that holds two records.  *)
SavedExistingKey ==
    /\ last.op = "save" /\ last.existed /\ last.outcome = "returned"
    /\ NumRecords(Ledger(file)) = 2

(* C2 as stated: the record of the watched key carries the error fields of *)
(* the most recent save, and its retry_count is the number of              *)
(* mark_retried(success=False) calls on the key since the last             *)
(* mark_retried(success=True), or since the start.                         *)
RetryCountIsFailsSinceSuccess ==
    (hist.watching /\ HasRecord(Ledger(file), hist.key)) =>
        LET entry == RecordOf(Ledger(file), hist.key)
        IN  /\ entry.error_type = hist.saved.error_type
            /\ entry.error_message = hist.saved.error_message
            /\ entry.retry_count = hist.fails

(* C2 amended: the record of the watched key carries the error fields of   *)
(* the most recent save, and its retry_count is the number of              *)
(* mark_retried(success=False) calls on the key since the save that        *)
(* created the record; so a save on an existing record keeps retry_count.  *)
RetryCountIsFailsSinceCreation ==
    (hist.watching /\ HasRecord(Ledger(file), hist.key)) =>
        LET entry == RecordOf(Ledger(file), hist.key)
        IN  /\ entry.error_type = hist.saved.error_type
            /\ entry.error_message = hist.saved.error_message
            /\ entry.retry_count = hist.hits

(* The watched record was retried without success before and after it was  *)
(* created, and then saved again.                                          *)
SavedAfterFailedRetries ==
    /\ hist.watching /\ HasRecord(Ledger(file), hist.key)
    /\ hist.hits = 1 /\ hist.fails = 2
    /\ last.op = "save" /\ last.existed
    /\ RecordOf(Ledger(file), hist.key).error_type = "exception"

(* C3: after mark_retried(success=True) that returned, load and query for  *)
(* the same (date, division, gender) do not list the game.                 *)
SuccessUnlistsGame ==
    (last.op = "mark" /\ last.success /\ last.outcome = "returned") => ~last.listed

(* A successful retry removed a record and another record stays.           *)
RemovedOneOfTwo ==
    /\ last.op = "mark" /\ last.success /\ last.existed /\ ~last.listed
    /\ NumRecords(Ledger(file)) = 1

(* C4: from no ledger file, after every save or mark_retried the persisted *)
(* ledger has no game with an empty record list and no date with an empty  *)
(* game mapping; so a ledger without records is the empty structure.       *)
NoEmptyBuckets ==
    /\ \A i \in DOMAIN Ledger(file) :
          /\ Ledger(file)[i].val # <<>>
          /\ \A j \in DOMAIN Ledger(file)[i].val : Ledger(file)[i].val[j].val # <<>>
    /\ NumRecords(Ledger(file)) = 0 => Ledger(file) = <<>>

(* The last record was retried with success: the file holds {}.            *)
PrunedToEmpty ==
    /\ last.op = "mark" /\ last.success /\ last.existed
    /\ file = FileObject(<<>>)

(* Views of the merge for the claims.                                      *)
Restrict(r, cols) == [c \in cols |-> r[c]]
IsTable(csv) == csv.kind = "table"
AddedRows == SubSeq(output_csv.rows, Len(existing_csv.rows) + 1, Len(output_csv.rows))
RowCount(rows, r) == Cardinality({i \in DOMAIN rows : rows[i] = r})
SameRowBag(a, b) ==
    /\ a.kind = b.kind
    /\ Len(a.rows) = Len(b.rows)
    /\ \A r \in Range(a.rows) \cup Range(b.rows) : RowCount(a.rows, r) = RowCount(b.rows, r)

(* C5: with both tables present, non-empty and carrying GAMEID, the output *)
(* is the existing rows in their order followed by the new rows, in their  *)
(* order, whose GAMEID is not in the existing table.                       *)
MergeKeepsExistingThenNewIds ==
    (/\ pc = "merged"
     /\ IsTable(existing_csv) /\ IsTable(new_csv)
     /\ existing_csv.rows # <<>> /\ new_csv.rows # <<>>
     /\ "GAMEID" \in existing_csv.columns /\ "GAMEID" \in new_csv.columns) =>
        LET E == existing_csv.rows
            ids == {E[i]["GAMEID"] : i \in DOMAIN E}
            N == SelectSeq(new_csv.rows, LAMBDA r : r["GAMEID"] \notin ids)
        IN  /\ result
            /\ IsTable(output_csv)
            /\ Len(output_csv.rows) = Len(E) + Len(N)
            /\ \A i \in DOMAIN E :
                  Restrict(output_csv.rows[i], existing_csv.columns) = E[i]
            /\ \A j \in DOMAIN N :
                  Restrict(output_csv.rows[Len(E) + j], new_csv.columns) = N[j]

(* Existing ids A, B and new ids B, C: the output has A, B, C, and B's row *)
(* is the existing one, which differs from the new one.                    *)
MergedABWithBC ==
    /\ pc = "merged"
    /\ existing_csv.columns = {"GAMEID", "GAMELINK", "TEAM"}
    /\ new_csv.columns = {"GAMEID", "GAMELINK", "TEAM"}
    /\ [i \in DOMAIN existing_csv.rows |-> existing_csv.rows[i]["GAMEID"]] = <<"A", "B">>
    /\ [i \in DOMAIN new_csv.rows |-> new_csv.rows[i]["GAMEID"]] = <<"B", "C">>
    /\ existing_csv.rows[2] # new_csv.rows[1]
    /\ [i \in DOMAIN output_csv.rows |-> output_csv.rows[i]["GAMEID"]] = <<"A", "B", "C">>
    /\ output_csv.rows[2] = existing_csv.rows[2]

(* C6: when GAMEID is absent from the existing or from the new table, no   *)
(* new row whose GAMELINK occurs in the existing table is added.           *)
FallsBackToGameLink ==
    (/\ pc = "merged"
     /\ IsTable(existing_csv) /\ IsTable(new_csv) /\ new_csv.rows # <<>>
     /\ "GAMEID" \notin existing_csv.columns \/ "GAMEID" \notin new_csv.columns
     /\ "GAMELINK" \in existing_csv.columns /\ "GAMELINK" \in new_csv.columns) =>
        \A i \in DOMAIN AddedRows :
            AddedRows[i]["GAMELINK"] \notin
                {existing_csv.rows[j]["GAMELINK"] : j \in DOMAIN existing_csv.rows}

MergeDegenerateCases ==
    pc = "merged" =>
        /\ (~IsTable(existing_csv) /\ IsTable(new_csv)) =>
              (result /\ output_csv = new_csv)
        /\ (~IsTable(existing_csv) /\ ~IsTable(new_csv)) =>
              (~result /\ output_csv = CsvMissing)
        /\ (/\ IsTable(existing_csv)
            /\ \/ ~IsTable(new_csv)
               \/ new_csv.rows = <<>>
               \/ FilterNew(existing_csv, new_csv).rows = <<>>) =>
              (result /\ output_csv = existing_csv)

(* An unreadable existing table and a new table with rows.                 *)
MergedWithoutExisting ==
    /\ pc = "merged"
    /\ existing_csv.kind = "unreadable"
    /\ IsTable(new_csv) /\ new_csv.rows # <<>>
    /\ result /\ output_csv = new_csv

(* C9: no ledger operation lets an exception reach its caller.             *)
NoExceptionPropagates == last.outcome # "raised"

(* C10: a mark_retried that hit an I/O, parse or write error leaves the    *)
(* persisted ledger as it was before the call.                             *)
MarkErrorLeavesFile ==
    [][(last'.op = "mark" /\ last'.outcome = "caught") => file' = file]_vars

(* View of an observed call for the claims.                                *)
CallHadRecord == Existed(Ledger(before), ArgsKey(call))

(* C11: load with a target date always returns exactly one entry, keyed by *)
(* the date, holding the date's bucket of the store or an empty bucket;    *)
(* load without a date returns the full store.                             *)
LoadWithDateHasOneEntry ==
    call.op = "load" =>
        IF call.with_date
        THEN /\ Len(ret.loaded.data) = 1
             /\ ret.loaded.data[1].key = isoformat(call.date)
             /\ ret.loaded.data[1].val = BucketAt(Ledger(before), isoformat(call.date))
        ELSE ret.loaded.data = Ledger(before)

(* C12: a save on a key without a record appends to the game's list one    *)
(* record with the arguments and retry_count 0, creates the date and the   *)
(* game at the end of their dicts when missing, and changes nothing else;  *)
(* the load that follows returns that store.                               *)
SaveOnNewKeyAppendsRecord ==
    (call.op = "save" /\ ~CallHadRecord) =>
        LET d0 == Ledger(before)
            d1 == ret.loaded.data
            date_key == isoformat(call.date)
            game_link == call.game_link
        IN  /\ ~ret.raised
            /\ file = FileObject(d1)
            /\ EntriesAt(d1, date_key, game_link) =
                  Append(EntriesAt(d0, date_key, game_link),
                         [division |-> call.division, gender |-> call.gender,
                          error_type |-> call.error_type,
                          error_message |-> call.error_message,
                          retry_count |-> 0])
            /\ KeySeq(d1) = KeySeq(d0) \o
                  (IF DictHas(d0, date_key) THEN <<>> ELSE <<date_key>>)
            /\ KeySeq(BucketAt(d1, date_key)) = KeySeq(BucketAt(d0, date_key)) \o
                  (IF DictHas(BucketAt(d0, date_key), game_link)
                   THEN <<>> ELSE <<game_link>>)
            /\ \A k \in DictKeys(d1) :
                  \A g \in DictKeys(DictGet(d1, k)) :
                      <<k, g>> # <<date_key, game_link>> =>
                          /\ DictHas(BucketAt(d0, k), g)
                          /\ EntriesAt(d1, k, g) = EntriesAt(d0, k, g)
                          /\ KeySeq(BucketAt(d1, k)) = KeySeq(BucketAt(d0, k)) \/ k = date_key

(* A second record was saved for a game that had one.                      *)
SavedSecondRecordOfGame ==
    /\ call.op = "save" /\ ~CallHadRecord
    /\ Len(EntriesAt(Ledger(before), isoformat(call.date), call.game_link)) = 1
    /\ Len(EntriesAt(Ledger(file), isoformat(call.date), call.game_link)) = 2
    /\ EntriesAt(Ledger(file), isoformat(call.date), call.game_link)[2].division
          = call.division
    /\ EntriesAt(Ledger(file), isoformat(call.date), call.game_link)[2].gender
          = call.gender

(* C13: mark_retried(success=False) on a key with a record adds 1 to the   *)
(* record's retry_count, a missing one counting as 0, keeps the record and *)
(* its error_type and error_message, and the number of records.            *)
FailedRetryAddsOne ==
    (call.op = "mark" /\ ~call.success /\ CallHadRecord) =>
        /\ HasRecord(Ledger(file), ArgsKey(call))
        /\ LET old == RecordOf(Ledger(before), ArgsKey(call))
               new == RecordOf(Ledger(file), ArgsKey(call))
           IN  /\ new.retry_count = EntryGet(old, "retry_count", 0) + 1
               /\ new.error_type = old.error_type
               /\ new.error_message = old.error_message
        /\ NumRecords(Ledger(file)) = NumRecords(Ledger(before))

(* A failed retry of a record that had no retry_count.                     *)
FailedRetryOfRecordWithoutCount ==
    /\ call.op = "mark" /\ ~call.success /\ CallHadRecord
    /\ "retry_count" \notin DOMAIN RecordOf(Ledger(before), ArgsKey(call))
    /\ RecordOf(Ledger(file), ArgsKey(call)).retry_count = 1

(* C14: mark_retried while the ledger file does not exist creates no file, *)
(* for either value of success.                                            *)
MarkWithoutFileCreatesNone ==
    (call.op = "mark" /\ before.kind = "missing") => file.kind = "missing"

(* mark_retried(success=True) was called without a ledger file.            *)
MarkedWithoutFile ==
    call.op = "mark" /\ call.success /\ before.kind = "missing" /\ file = FileMissing

(* C15: mark_retried on a key without a record, its date, game or          *)
(* (division, gender) record missing, leaves the ledger as it was.         *)
MarkOnAbsentKeyChangesNothing ==
    (call.op = "mark" /\ ~CallHadRecord) => file = before

(* mark_retried(success=True) for a (division, gender) that the game has   *)
(* no record of, while the game has another record.                        *)
MarkedAbsentRecordOfListedGame ==
    /\ call.op = "mark" /\ call.success /\ ~CallHadRecord
    /\ EntriesAt(Ledger(before), isoformat(call.date), call.game_link) # <<>>
    /\ NumRecords(Ledger(file)) = 2
    /\ file = before

(* C16: the query returns the games of the date that have a record of the  *)
(* (division, gender), each once, in the order of the date's dict, and the *)
(* empty list when the date is absent.                                     *)
QueryListsMatchingGamesInOrder ==
    call.op = "query" =>
        LET bucket == BucketAt(ret.loaded.data, isoformat(call.date))
            Matches(g) ==
                \E e \in Range(DictGet(bucket, g)) :
                    e.division = call.division /\ e.gender = call.gender
        IN  /\ ~ret.raised
            /\ ret.games = SelectSeq(KeySeq(bucket), Matches)
            /\ Cardinality(Range(ret.games)) = Len(ret.games)
            /\ ~DictHas(ret.loaded.data, isoformat(call.date)) => ret.games = <<>>

(* Two games were listed, the one saved first being game 2.                *)
QueriedTwoGamesSecondFirst ==
    call.op = "query" /\ ret.games = <<2, 1>>

(* C17: exists returns true exactly when the table file is a readable      *)
(* table with a GAMEID column that contains identity_key, and false on a   *)
(* missing or unreadable file and on a table without the column.           *)
ExistsIffIdentityInColumn ==
    pc = "exists" =>
        (result <=>
            /\ IsTable(existing_csv)
            /\ "GAMEID" \in existing_csv.columns
            /\ \E i \in DOMAIN existing_csv.rows :
                   existing_csv.rows[i]["GAMEID"] = call.identity)

(* C18: after a successful append the table holds the previous rows        *)
(* followed by every given row, duplicates of GAMEID included; its header  *)
(* is that of the given rows when the file did not exist and the previous  *)
(* header otherwise.                                                       *)
AppendAddsGivenRows ==
    (pc = "appended" /\ result /\ existing_csv.kind \in {"missing", "table"}) =>
        /\ IsTable(output_csv)
        /\ output_csv.columns =
              IF IsTable(existing_csv) THEN existing_csv.columns ELSE new_csv.columns
        /\ Len(output_csv.rows) = Len(existing_csv.rows) + Len(new_csv.rows)
        /\ \A i \in DOMAIN existing_csv.rows : output_csv.rows[i] = existing_csv.rows[i]
        /\ \A j \in DOMAIN new_csv.rows :
              \A c \in new_csv.columns :
                  /\ c \in output_csv.columns
                  /\ output_csv.rows[Len(existing_csv.rows) + j][c] = new_csv.rows[j][c]

(* C19: on a readable table with GAMELINK, set_duplicate_flag returns true *)
(* and rewrites the table with the same rows, the flag set to value on the *)
(* rows of game_link and unchanged, or false when the column is new, on    *)
(* the others; on any other file it returns false and changes nothing.     *)
FlagSetOnMatchingRowsOnly ==
    pc = "flagged" =>
        IF IsTable(existing_csv) /\ "GAMELINK" \in existing_csv.columns
        THEN /\ result
             /\ IsTable(output_csv)
             /\ output_csv.columns = existing_csv.columns \cup {Flag}
             /\ Len(output_csv.rows) = Len(existing_csv.rows)
             /\ \A i \in DOMAIN existing_csv.rows :
                   /\ Restrict(output_csv.rows[i], existing_csv.columns \ {Flag})
                        = Restrict(existing_csv.rows[i], existing_csv.columns \ {Flag})
                   /\ output_csv.rows[i][Flag] =
                        IF existing_csv.rows[i]["GAMELINK"] = call.identity
                        THEN (IF call.success THEN "True" ELSE "False")
                        ELSE IF Flag \in existing_csv.columns
                        THEN existing_csv.rows[i][Flag]
                        ELSE "False"
        ELSE ~result /\ output_csv = existing_csv

(* The flag was set on one of two rows of a table that had no flag column. *)
FlaggedOneOfTwoRows ==
    /\ pc = "flagged" /\ result /\ call.success
    /\ Flag \notin existing_csv.columns
    /\ Len(output_csv.rows) = 2
    /\ output_csv.rows[1][Flag] = "True" /\ output_csv.rows[2][Flag] = "False"

(* Views of the two concurrent calls for the claims.                       *)
BothDone == \A p \in Procs : procs[p].pc = "done"
(* The final ledger shows what the call of p does to its key.              *)
Reflects(p) ==
    LET a == procs[p].args
        key == ArgsKey(a)
        had == Existed(Ledger(before), key)
        count == IF had THEN EntryGet(RecordOf(Ledger(before), key), "retry_count", 0)
                 ELSE 0
    IN  IF a.op = "save"
        THEN /\ HasRecord(Ledger(file), key)
             /\ RecordOf(Ledger(file), key).error_type = a.error_type
             /\ RecordOf(Ledger(file), key).error_message = a.error_message
             /\ RecordOf(Ledger(file), key).retry_count = count
        ELSE IF a.success \/ ~had THEN ~HasRecord(Ledger(file), key)
        ELSE /\ HasRecord(Ledger(file), key)
             /\ RecordOf(Ledger(file), key).retry_count = count + 1

(* C20: when the load-mutate-write cycles of two mutations on different    *)
(* keys do not overlap, the final ledger reflects both; a lost update      *)
(* needs an overlap.                                                       *)
SerialCallsReflectBoth ==
    (BothDone /\ \A p \in Procs : ~procs[p].concurrent) =>
        /\ file.kind \in {"missing", "object"}
        /\ \A p \in Procs : Reflects(p)

(* Two saves overlapped and the final ledger holds the record of one of    *)
(* them only: the other update is lost.                                    *)
LostUpdate ==
    /\ BothDone
    /\ \A p \in Procs : procs[p].args.op = "save"
    /\ \E p \in Procs : procs[p].concurrent
    /\ file.kind = "object"
    /\ \E p \in Procs : Reflects(p)
    /\ \E p \in Procs : ~Reflects(p)

(* C21: a save on a missing or unparsable store completes, and the file    *)
(* then holds exactly the one record that was saved.                       *)
SaveOnUnreadableStoreKeepsOneRecord ==
    (call.op = "save" /\ before.kind \in {"missing", "corrupt"}) =>
        /\ ~ret.raised
        /\ file = FileObject(
               <<[key |-> isoformat(call.date),
                  val |-> <<[key |-> call.game_link,
                             val |-> <<NewEntry(call.division, call.gender,
                                                call.error_type,
                                                call.error_message)>>]>>]>>)

SavedOverUnparsableStore ==
    /\ call.op = "save" /\ before = FileCorrupt
    /\ file.kind = "object" /\ NumRecords(Ledger(file)) = 1

(* The records of a dict in order, each with its key, without those of     *)
(* one key.                                                                *)
Keyed(entries, date_key, game_link) ==
    [i \in DOMAIN entries |->
        [date |-> date_key, game |-> game_link, entry |-> entries[i]]]
RECURSIVE KeyedBucket(_, _, _)
KeyedBucket(bucket, date_key, j) ==
    IF j > Len(bucket) THEN <<>>
    ELSE Keyed(bucket[j].val, date_key, bucket[j].key)
         \o KeyedBucket(bucket, date_key, j + 1)
RECURSIVE KeyedRecords(_, _)
KeyedRecords(d, i) ==
    IF i > Len(d) THEN <<>>
    ELSE KeyedBucket(d[i].val, d[i].key, 1) \o KeyedRecords(d, i + 1)
KeyOf(r) ==
    <<r.date, r.game, EntryGet(r.entry, "division", ""), EntryGet(r.entry, "gender", "")>>
Others(d, key) == SelectSeq(KeyedRecords(d, 1), LAMBDA r : KeyOf(r) # key)

(* C27: under save and mark_retried a record that stays keeps a            *)
(* retry_count that is at least 0 and at least what it was, however high   *)
(* it is, and a record goes only by mark_retried with success on its key.  *)
RetryCountNeverDecreases ==
    call.op \in {"save", "mark"} =>
        \A key \in Keys :
            HasRecord(Ledger(before), key) =>
                IF HasRecord(Ledger(file), key)
                THEN /\ EntryGet(RecordOf(Ledger(file), key), "retry_count", 0) >= 0
                     /\ EntryGet(RecordOf(Ledger(file), key), "retry_count", 0)
                           >= EntryGet(RecordOf(Ledger(before), key), "retry_count", 0)
                ELSE call.op = "mark" /\ call.success /\ ArgsKey(call) = key

FailedRetryAtHighestCount ==
    /\ call.op = "mark" /\ ~call.success /\ CallHadRecord
    /\ EntryGet(RecordOf(Ledger(before), ArgsKey(call)), "retry_count", 0) = MaxRetry - 1
    /\ HasRecord(Ledger(file), ArgsKey(call))
    /\ EntryGet(RecordOf(Ledger(file), ArgsKey(call)), "retry_count", 0) = MaxRetry

SaveThenSuccessRestoresLedger ==
    (call.op = "save_mark" /\ ~CallHadRecord) =>
        /\ Ledger(file) = Ledger(before)
        /\ before.kind = "object" => file = before

RestoredLedgerOfOtherDate ==
    /\ call.op = "save_mark" /\ ~CallHadRecord
    /\ NumRecords(Ledger(before)) >= 1
    /\ ~DictHas(Ledger(before), isoformat(call.date))
    /\ file = before

(* C25: when the new table has neither GAMEID nor GAMELINK, merge succeeds *)
(* and its output is the existing rows followed by every new row.          *)
MergeKeepsEveryUnkeyedRow ==
    (/\ pc = "merged" /\ IsTable(new_csv)
     /\ "GAMEID" \notin new_csv.columns /\ "GAMELINK" \notin new_csv.columns) =>
        LET E == IF IsTable(existing_csv) THEN existing_csv.rows ELSE <<>>
            cols == IF IsTable(existing_csv) THEN existing_csv.columns ELSE {}
            N == new_csv.rows
        IN  /\ result
            /\ IsTable(output_csv)
            /\ Len(output_csv.rows) = Len(E) + Len(N)
            /\ \A i \in DOMAIN E : Restrict(output_csv.rows[i], cols) = E[i]
            /\ \A j \in DOMAIN N :
                  Restrict(output_csv.rows[Len(E) + j], new_csv.columns) = N[j]

MergedUnkeyedRows ==
    /\ pc = "merged" /\ IsTable(existing_csv) /\ IsTable(new_csv)
    /\ "GAMEID" \in existing_csv.columns
    /\ new_csv.columns = {"TEAM"}
    /\ Len(existing_csv.rows) = 1 /\ Len(new_csv.rows) = 2
    /\ Len(output_csv.rows) = 3

(* Views of a pass for the claims.                                         *)
AttemptsOf(key) == SelectSeq(run.attempts, LAMBDA a : a.key = key)
RetryCountIn(f, key) == EntryGet(RecordOf(Ledger(f), key), "retry_count", 0)
RetryPassDone == run.pc = "done" /\ run.is_retry /\ ~run.driver_failed

(* C23: after a retry pass for a date in which the driver started, every   *)
(* record of the date that the ledger held at the load was attempted once  *)
(* and is gone when it was scraped and has retry_count one higher when it  *)
(* was not; the buckets of the other dates are as they were.               *)
RetryPassSettlesEveryRecord ==
    RetryPassDone =>
        /\ \A key \in Keys :
              (key[1] = isoformat(run.date) /\ HasRecord(Ledger(run.start), key)) =>
                  /\ Len(AttemptsOf(key)) = 1
                  /\ IF AttemptsOf(key)[1].outcome = "scraped"
                     THEN ~HasRecord(Ledger(file), key)
                     ELSE /\ HasRecord(Ledger(file), key)
                          /\ RetryCountIn(file, key) = RetryCountIn(run.start, key) + 1
        /\ \A date \in Dates \ {run.date} :
              BucketAt(Ledger(file), isoformat(date))
                  = BucketAt(Ledger(run.start), isoformat(date))

RetriedOneScrapedOneFailed ==
    /\ RetryPassDone
    /\ NumRecords(Ledger(run.start)) = 2
    /\ Len(run.attempts) = 2
    /\ run.attempts[1].outcome = "failed" /\ run.attempts[2].outcome = "scraped"
    /\ NumRecords(Ledger(file)) = 1

(* C24: when the snapshot that a retry pass downloaded is merged, a merge  *)
(* that succeeds puts its output at csv_path and removes the snapshot, a   *)
(* merge that fails leaves the table the loop wrote at csv_path, and what  *)
(* is uploaded is the table at csv_path.                                   *)
MergeStepReplacesOrKeeps ==
    (run.pc # "loop" /\ run.merged) =>
        /\ IF result
           THEN /\ new_csv = merge_csv_files(run.snapshot, run.scraped).output
                /\ existing_csv = CsvMissing
           ELSE /\ new_csv = run.scraped
                /\ existing_csv = run.snapshot
        /\ run.uploaded # None => run.uploaded = new_csv
        /\ IsTable(new_csv) => run.uploaded = new_csv

UploadedUnmergedTable ==
    /\ run.pc # "loop" /\ run.merged /\ ~result
    /\ IsTable(run.snapshot) /\ run.snapshot.rows # <<>>
    /\ IsTable(run.scraped) /\ run.scraped.rows # <<>>
    /\ run.uploaded = run.scraped

(* C26: a retry pass attempts only records that the ledger held at its     *)
(* load, each at most once, and it ends, whatever the outcomes are.        *)
AttemptedAtMostOnce ==
    run.is_retry =>
        \A i, j \in DOMAIN run.attempts :
            /\ HasRecord(Ledger(run.start), run.attempts[i].key)
            /\ i # j => run.attempts[i].key # run.attempts[j].key
RetryPassEndsAfterOneRound ==
    /\ []AttemptedAtMostOnce
    /\ (run.pc # "idle" /\ run.is_retry) ~> (run.pc = "done")

RetriedAllFailed ==
    /\ RetryPassDone
    /\ Len(run.attempts) = 2
    /\ \A i \in DOMAIN run.attempts : run.attempts[i].outcome # "scraped"
    /\ NumRecords(Ledger(file)) = 2

(* C28: a pass that is not a retry leaves every record that the ledger     *)
(* held in the ledger with its retry_count, division and gender, whatever  *)
(* it scrapes: it adds records and overwrites error fields only.           *)
ScrapePassNeverMarks ==
    (run.pc # "idle" /\ ~run.is_retry) =>
        \A key \in Keys :
            HasRecord(Ledger(run.start), key) =>
                /\ HasRecord(Ledger(file), key)
                /\ RetryCountIn(file, key) = RetryCountIn(run.start, key)

ScrapedGameKeepsItsRecord ==
    /\ run.pc = "done" /\ ~run.is_retry
    /\ \E i \in DOMAIN run.attempts :
          /\ run.attempts[i].outcome = "scraped"
          /\ HasRecord(Ledger(run.start), run.attempts[i].key)
          /\ HasRecord(Ledger(file), run.attempts[i].key)
          /\ RetryCountIn(file, run.attempts[i].key) >= 1

(* C31: exists is true exactly when the key is in the identity set of the  *)
(* table; the identity set is empty for a file that is missing, unreadable *)
(* or without GAMEID; after a successful append to a table with GAMEID     *)
(* every identity of the appended rows is in the identity set.             *)
ExistsIsMembershipOfIdentitySet ==
    /\ pc = "exists_ids" => (result <=> Str(call.identity) \in ret.ids)
    /\ (/\ pc \in {"exists_ids", "appended_ids"}
        /\ ~(IsTable(output_csv) /\ "GAMEID" \in output_csv.columns)) => ret.ids = {}
    /\ (/\ pc = "appended_ids" /\ result
        /\ IsTable(existing_csv) /\ "GAMEID" \in existing_csv.columns
        /\ "GAMEID" \in new_csv.columns) =>
            \A j \in DOMAIN new_csv.rows : Str(new_csv.rows[j]["GAMEID"]) \in ret.ids

====
